---- MODULE Spec2Model ----
(***************************************************************************)
(* Model of rigpad's AsyncRigControlServer (src/main.py): the two asyncio  *)
(* tasks sync_frequencies and handle_controller_input, the shared          *)
(* last_frequency, the single TCP stream to the radio, and the lifecycle   *)
(* start() / stop() / __main__.                                            *)
(*                                                                         *)
(* Text on the wire is a sequence of one-character strings, so that        *)
(* formatting (f'F {frequency}\n') and parsing (strip / split / int) are   *)
(* computed and not assumed.  An optional integer (Python's None or an     *)
(* int) is <<>> or <<v>>.                                                   *)
(*                                                                         *)
(* Scheduling is asyncio's: a task runs without interruption from one      *)
(* await that suspends to the next, so every action below is the code      *)
(* between two suspension points (drain, read, sleep, open_connection).    *)
(***************************************************************************)
EXTENDS Integers, Sequences, FiniteSets, TLC

VARIABLES
    running,         \* self.running
    last_frequency,  \* self.last_frequency: <<>> is None, <<v>> an int
    step_index,      \* local step_index of handle_controller_input
    joystick,        \* self.joystick is not None
    conn,            \* the stream: "unopened", "open", "closed"
    mainPc,          \* __main__ / start(): where the main coroutine is
    syncPc,          \* sync_frequencies task
    inputPc,         \* handle_controller_input task
    toRemote,        \* commands written to primary_writer, not yet handled by the radio
    fromRemote,      \* bytes the radio sent, buffered in primary_reader
    rigFreq,         \* the radio's own frequency
    ackSet,          \* whether this radio answers 'F <int>' with a report line
    sample,          \* get_hat(0) of the dispatch that is suspended in set_frequency()
    closeCalls,      \* how often close_connection() closed the stream
    polls,           \* read-frequency requests sent
    shifts           \* left/right dispatches made

vars == <<running, last_frequency, step_index, joystick, conn, mainPc, syncPc,
          inputPc, toRemote, fromRemote, rigFreq, ackSet, sample, closeCalls,
          polls, shifts>>

----------------------------------------------------------------------------
(* Bounds of the model *)

MaxPolls == 2
MaxShifts == 1
MaxPreceding == 2

(* Frequencies the radio may be on when the engine connects. *)
RigFreqs == {0, 145000000}

----------------------------------------------------------------------------
(* Text *)

None == <<>>

Digits == <<"0", "1", "2", "3", "4", "5", "6", "7", "8", "9">>

IsDigit(c) == \E i \in 1..10 : Digits[i] = c

DigitVal(c) == (CHOOSE i \in 1..10 : Digits[i] = c) - 1

RECURSIVE NatToStr(_)
NatToStr(n) ==
    IF n < 10 THEN <<Digits[n + 1]>>
    ELSE NatToStr(n \div 10) \o <<Digits[(n % 10) + 1]>>

\* str(int): decimal digits, '-' for a negative value, no leading zeros
IntToStr(n) == IF n < 0 THEN <<"-">> \o NatToStr(0 - n) ELSE NatToStr(n)

IsSpace(c) == c \in {" ", "\n", "\t", "\r"}

RECURSIVE LStrip(_)
LStrip(s) == IF s # <<>> /\ IsSpace(Head(s)) THEN LStrip(Tail(s)) ELSE s

RECURSIVE RStrip(_)
RStrip(s) ==
    IF s # <<>> /\ IsSpace(s[Len(s)]) THEN RStrip(SubSeq(s, 1, Len(s) - 1)) ELSE s

\* str.strip()
Strip(s) == RStrip(LStrip(s))

\* s.split('\n')[-1]: what follows the last newline
LastLine(s) ==
    LET nl == {i \in 1..Len(s) : s[i] = "\n"}
    IN  IF nl = {} THEN s
        ELSE SubSeq(s, (CHOOSE i \in nl : \A j \in nl : j <= i) + 1, Len(s))

RECURSIVE DigitsValue(_, _)
DigitsValue(s, acc) ==
    IF s = <<>> THEN acc
    ELSE IF Head(s) = "_" THEN DigitsValue(Tail(s), acc)
    ELSE DigitsValue(Tail(s), acc * 10 + DigitVal(Head(s)))

\* int(str): surrounding whitespace, an optional sign, digits with single
\* underscores between them.  <<>> stands for ValueError.
PyInt(s) ==
    LET t    == Strip(s)
        neg  == t # <<>> /\ Head(t) = "-"
        body == IF t # <<>> /\ Head(t) \in {"-", "+"} THEN Tail(t) ELSE t
        ok   == /\ body # <<>>
                /\ \A i \in 1..Len(body) : IsDigit(body[i]) \/ body[i] = "_"
                /\ IsDigit(body[1]) /\ IsDigit(body[Len(body)])
                /\ \A i \in 1..(Len(body) - 1) : ~(body[i] = "_" /\ body[i + 1] = "_")
    IN  IF ~ok THEN None
        ELSE IF neg THEN <<0 - DigitsValue(body, 0)>> ELSE <<DigitsValue(body, 0)>>

ReadCmd == <<"f", "\n">>

SetCmd(frequency) == <<"F", " ">> \o IntToStr(frequency) \o <<"\n">>

IsSetCmd(cmd) == Len(cmd) >= 2 /\ cmd[1] = "F" /\ cmd[2] = " "

ReadSize == 1024

\* a byte that no UTF-8 text contains (0xFF); every other element of a byte
\* sequence here is an ASCII character
InvalidByte == "0xFF"

\* response.decode('utf-8') returns; on an invalid byte it raises
\* UnicodeDecodeError, outside the try of get_rig_data
Decodable(bytes) == \A i \in 1..Len(bytes) : bytes[i] # InvalidByte

\* get_rig_data after the read: the value returned for the text received
Decode(bytes) == PyInt(LastLine(Strip(bytes)))

----------------------------------------------------------------------------
(* The radio at the other end of the stream *)

ReplyStyles == {"plain", "banner", "error", "garbled"}

Reply(style, f) ==
    CASE style = "plain"  -> IntToStr(f) \o <<"\n">>
      [] style = "banner" -> <<"O", "K", "\n">> \o IntToStr(f) \o <<"\n">>
      [] style = "error"  -> <<"R", "P", "R", "T", " ", "-", "1", "\n">>
      [] style = "garbled" -> <<InvalidByte, "\n">>

Ack == <<"R", "P", "R", "T", " ", "0", "\n">>

----------------------------------------------------------------------------
(* Pure parts of the two loops *)

frequency_steps == <<1000, 12500, 1000000>>

DefaultFrequency == 1000000

\* remainder that truncates toward zero, as C's % does
TruncMod(a, n) == IF a < 0 THEN 0 - ((0 - a) % n) ELSE a % n

\* Python's %: the result has the sign of the divisor
PyMod(a, n) == a - n * (a \div n)

\* 'if freq': None and 0 are both false
Truthy(freq) == freq # None /\ freq[1] # 0

\* an update that blends the remote value into the local one
SyncUpdateBlend(freq, last) ==
    IF ~(Truthy(freq) /\ freq # last) THEN last
    ELSE IF last = None THEN freq
    ELSE <<(freq[1] + last[1]) \div 2>>

\* an update that stores whatever get_rig_data returned, None included
SyncUpdateStoresNone(freq, last) == IF freq # last THEN freq ELSE last

\* sync_frequencies, the update step: the new last_frequency
SyncUpdate(freq, last) == IF Truthy(freq) /\ freq # last THEN freq ELSE last

\* a base without the default: None counted as 0
BaseFrequencyNoDefault(last) == IF last = None THEN 0 ELSE last[1]

\* 'if self.last_frequency is None: self.last_frequency = 1000000'
BaseFrequency(last) == IF last = None THEN DefaultFrequency ELSE last[1]

Samples == {-1, 0, 1} \X {-1, 0, 1}

Neutral == <<0, 0>>

\* the chain written with a separate 'if' for the vertical axis
DispatchBothAxes(s, last, idx) ==
    LET f == IF s[1] = -1 THEN <<BaseFrequency(last) - frequency_steps[idx + 1]>>
             ELSE IF s[1] = 1 THEN <<BaseFrequency(last) + frequency_steps[idx + 1]>>
             ELSE last
        i == IF s[2] = 1 THEN PyMod(idx + 1, Len(frequency_steps))
             ELSE IF s[2] = -1 THEN PyMod(idx - 1, Len(frequency_steps))
             ELSE idx
    IN  [last |-> f, idx |-> i,
         cmds |-> IF s[1] # 0 THEN <<SetCmd(f[1])>> ELSE <<>>]

\* the chain with the step index reset to 0 by every left / right
DispatchResetsStep(s, last, idx) ==
    IF s[1] = -1 THEN
        LET f == BaseFrequency(last) - frequency_steps[idx + 1]
        IN  [last |-> <<f>>, idx |-> 0, cmds |-> <<SetCmd(f)>>]
    ELSE IF s[1] = 1 THEN
        LET f == BaseFrequency(last) + frequency_steps[idx + 1]
        IN  [last |-> <<f>>, idx |-> 0, cmds |-> <<SetCmd(f)>>]
    ELSE IF s[2] = 1 THEN
        [last |-> last, idx |-> PyMod(idx + 1, Len(frequency_steps)), cmds |-> <<>>]
    ELSE IF s[2] = -1 THEN
        [last |-> last, idx |-> PyMod(idx - 1, Len(frequency_steps)), cmds |-> <<>>]
    ELSE
        [last |-> last, idx |-> idx, cmds |-> <<>>]

\* One pass through the if / elif chain on the hat value s = (x, y), from
\* last_frequency `last` and step_index `idx`: the new values of both and the
\* commands handed to set_frequency.
Dispatch(s, last, idx) ==
    IF s[1] = -1 THEN
        LET f == BaseFrequency(last) - frequency_steps[idx + 1]
        IN  [last |-> <<f>>, idx |-> idx, cmds |-> <<SetCmd(f)>>]
    ELSE IF s[1] = 1 THEN
        LET f == BaseFrequency(last) + frequency_steps[idx + 1]
        IN  [last |-> <<f>>, idx |-> idx, cmds |-> <<SetCmd(f)>>]
    ELSE IF s[2] = 1 THEN
        [last |-> last, idx |-> PyMod(idx + 1, Len(frequency_steps)), cmds |-> <<>>]
    ELSE IF s[2] = -1 THEN
        [last |-> last, idx |-> PyMod(idx - 1, Len(frequency_steps)), cmds |-> <<>>]
    ELSE
        [last |-> last, idx |-> idx, cmds |-> <<>>]

\* writer.write(): the bytes leave only while the transport is open
Written(q, cmds) == IF conn = "open" THEN q \o cmds ELSE q

Live(pc) == pc \in {"top", "drain", "read", "sleep"}

\* a task thrown CancelledError at its await
Cancelled(pc) == IF Live(pc) THEN "cancelled" ELSE pc

----------------------------------------------------------------------------
(* State after AsyncRigControlServer(primary_ip, primary_port) *)

\* the engine after construction, facing a radio that does (ack) or does not
\* answer 'F <int>' with a report line
Constructed(ack) ==
    /\ running = FALSE
    /\ last_frequency = None
    /\ step_index = 0
    /\ joystick \in BOOLEAN
    /\ conn = "unopened"
    /\ mainPc = "new"
    /\ syncPc = "idle"
    /\ inputPc = "idle"
    /\ toRemote = <<>>
    /\ fromRemote = <<>>
    /\ rigFreq \in RigFreqs
    /\ ackSet = ack
    /\ sample = Neutral
    /\ closeCalls = 0
    /\ polls = 0
    /\ shifts = 0

\* the radio of the protocol the code expects: 'F <int>' is not answered
Init == Constructed(FALSE)

\* a radio that reports on every 'F <int>'
InitAck == Constructed(TRUE)

----------------------------------------------------------------------------
(* Lifecycle *)

\* asyncio.run(server.start()): start() runs up to 'await open_connection()'
Start ==
    /\ mainPc = "new"
    /\ mainPc' = "opening"
    /\ UNCHANGED <<running, last_frequency, step_index, joystick, conn,
                   syncPc, inputPc, toRemote, fromRemote, rigFreq, ackSet,
                   sample, closeCalls, polls, shifts>>

\* open_connection() returns: running is set and gather() schedules both loops
OpenOk ==
    /\ mainPc = "opening"
    /\ conn' = "open"
    /\ running' = TRUE
    /\ mainPc' = "gather"
    /\ syncPc' = "top"
    /\ inputPc' = "top"
    /\ UNCHANGED <<last_frequency, step_index, joystick, toRemote, fromRemote,
                   rigFreq, ackSet, sample, closeCalls, polls, shifts>>

\* start() with the flag set before the connection is opened
OpenFailFlagFirst ==
    /\ mainPc = "opening"
    /\ mainPc' = "open_failed"
    /\ running' = TRUE
    /\ UNCHANGED <<last_frequency, step_index, joystick, conn, syncPc, inputPc,
                   toRemote, fromRemote, rigFreq, ackSet, sample, closeCalls,
                   polls, shifts>>

\* open_connection() raises: start() raises, and __main__ catches only
\* KeyboardInterrupt, so the process ends
OpenFail ==
    /\ mainPc = "opening"
    /\ mainPc' = "open_failed"
    /\ UNCHANGED <<running, last_frequency, step_index, joystick, conn,
                   syncPc, inputPc, toRemote, fromRemote, rigFreq, ackSet,
                   sample, closeCalls, polls, shifts>>

\* close_connection() as stop() reaches it: without primary_writer (never
\* opened) it raises AttributeError; closing a closed transport does nothing
CloseCount == IF conn = "open" THEN closeCalls + 1 ELSE closeCalls

Closed == IF conn = "unopened" THEN "unopened" ELSE "closed"

\* stop() that closes the stream and leaves the flag as it is
StopKeepsFlag ==
    /\ mainPc \in {"opening", "gather"}
    /\ conn' = Closed
    /\ closeCalls' = CloseCount
    /\ toRemote' = <<>>
    /\ UNCHANGED <<running, last_frequency, step_index, joystick, mainPc,
                   syncPc, inputPc, fromRemote, rigFreq, ackSet, sample, polls,
                   shifts>>

\* stop() awaited by another task of the event loop while start() is running:
\* the flag and writer.close() with no suspension between them.  What is
\* still on its way to the radio is not followed past the close.
Stop ==
    /\ mainPc \in {"opening", "gather"}
    /\ running' = FALSE
    /\ conn' = Closed
    /\ closeCalls' = CloseCount
    /\ toRemote' = <<>>
    /\ UNCHANGED <<last_frequency, step_index, joystick, mainPc, syncPc,
                   inputPc, fromRemote, rigFreq, ackSet, sample, polls,
                   shifts>>

\* gather() returns once both loops have left their while: start() returns and
\* the script ends
GatherReturn ==
    /\ mainPc = "gather"
    /\ syncPc = "done"
    /\ inputPc = "done"
    /\ mainPc' = "returned"
    /\ UNCHANGED <<running, last_frequency, step_index, joystick, conn,
                   syncPc, inputPc, toRemote, fromRemote, rigFreq, ackSet,
                   sample, closeCalls, polls, shifts>>

\* a loop raised: gather() passes the exception to start() at once; it neither
\* waits for the other loop nor cancels it, and start() fails with the
\* exception.  The loop's failure and start()'s are one step here.
LoopRaised == IF mainPc = "gather" THEN "start_failed" ELSE mainPc

\* start() has failed: asyncio.run() cancels the task that is left and
\* re-raises; __main__ does not catch it.  The process ends without
\* close_connection(); its buffers go with it.
RunCancel ==
    /\ mainPc = "start_failed"
    /\ mainPc' = "raised"
    /\ syncPc' = Cancelled(syncPc)
    /\ inputPc' = Cancelled(inputPc)
    /\ sample' = Neutral
    /\ toRemote' = <<>>
    /\ fromRemote' = <<>>
    /\ UNCHANGED <<running, last_frequency, step_index, joystick, conn,
                   rigFreq, ackSet, closeCalls, polls, shifts>>

\* Ctrl-C during asyncio.run(server.start()): the tasks are cancelled,
\* KeyboardInterrupt reaches the except clause of __main__, which runs
\* asyncio.run(server.stop()); the buffers of the stream go with it
Interrupt ==
    /\ mainPc \in {"opening", "gather"}
    /\ mainPc' = "stopped"
    /\ syncPc' = Cancelled(syncPc)
    /\ inputPc' = Cancelled(inputPc)
    /\ sample' = Neutral
    /\ running' = FALSE
    /\ conn' = Closed
    /\ closeCalls' = CloseCount
    /\ toRemote' = <<>>
    /\ fromRemote' = <<>>
    /\ UNCHANGED <<last_frequency, step_index, joystick, rigFreq, ackSet,
                   polls, shifts>>

----------------------------------------------------------------------------
(* sync_frequencies *)

\* what reader.read(1024) returns: the buffered bytes, at most 1024 of them
Response ==
    SubSeq(fromRemote, 1,
           IF Len(fromRemote) < ReadSize THEN Len(fromRemote) ELSE ReadSize)

\* the loop written as 'while True': the flag is not looked at
SyncCycleUnchecked ==
    /\ syncPc \in {"top", "sleep"}
    /\ polls < MaxPolls
    /\ polls' = polls + 1
    /\ toRemote' = Written(toRemote, <<ReadCmd>>)
    /\ syncPc' = "drain"
    /\ UNCHANGED <<running, last_frequency, step_index, joystick, conn,
                   mainPc, inputPc, fromRemote, rigFreq, ackSet, sample,
                   closeCalls, shifts>>

\* 'while self.running', then read_frequency() up to 'await writer.drain()'
SyncCycle ==
    /\ syncPc \in {"top", "sleep"}
    /\ IF running
       THEN /\ polls < MaxPolls
            /\ polls' = polls + 1
            /\ toRemote' = Written(toRemote, <<ReadCmd>>)
            /\ syncPc' = "drain"
       ELSE /\ syncPc' = "done"
            /\ UNCHANGED <<polls, toRemote>>
    /\ UNCHANGED <<running, last_frequency, step_index, joystick, conn,
                   mainPc, inputPc, fromRemote, rigFreq, ackSet, sample,
                   closeCalls, shifts>>

\* drain() returns; the task waits in reader.read(1024)
SyncDrain ==
    /\ syncPc = "drain"
    /\ syncPc' = "read"
    /\ UNCHANGED <<running, last_frequency, step_index, joystick, conn,
                   mainPc, inputPc, toRemote, fromRemote, rigFreq, ackSet,
                   sample, closeCalls, polls, shifts>>

\* read(1024) returns what is buffered (nothing, at end of stream, once the
\* transport is closed); the bytes are decoded to text, which raises on an
\* invalid byte and ends the task; the value is parsed and compared, then the
\* sleep
SyncRead ==
    /\ syncPc = "read"
    /\ fromRemote # <<>> \/ conn = "closed"
    /\ fromRemote' = SubSeq(fromRemote, Len(Response) + 1, Len(fromRemote))
    /\ IF Decodable(Response)
       THEN /\ last_frequency' = SyncUpdate(Decode(Response), last_frequency)
            /\ syncPc' = "sleep"
       ELSE /\ last_frequency' = last_frequency
            /\ syncPc' = "failed"
    /\ mainPc' = IF Decodable(Response) THEN mainPc ELSE LoopRaised
    /\ UNCHANGED <<running, step_index, joystick, conn, inputPc,
                   toRemote, rigFreq, ackSet, sample, closeCalls, polls,
                   shifts>>

\* drain() or read() raises (connection reset): the task ends with the error
\* and start() fails with it
SyncFail ==
    /\ syncPc \in {"drain", "read"}
    /\ syncPc' = "failed"
    /\ mainPc' = LoopRaised
    /\ UNCHANGED <<running, last_frequency, step_index, joystick, conn,
                   inputPc, toRemote, fromRemote, rigFreq, ackSet,
                   sample, closeCalls, polls, shifts>>

----------------------------------------------------------------------------
(* handle_controller_input *)

\* the loop without 'if self.joystick': get_hat is called on None, which raises
InputCycleUnguarded(s) ==
    /\ inputPc \in {"top", "sleep"}
    /\ IF ~running
       THEN /\ s = Neutral
            /\ inputPc' = "done"
            /\ UNCHANGED <<last_frequency, step_index, toRemote, sample, shifts,
                           mainPc>>
       ELSE IF ~joystick
       THEN /\ s = Neutral
            /\ inputPc' = "failed"
            /\ mainPc' = LoopRaised
            /\ UNCHANGED <<last_frequency, step_index, toRemote, sample, shifts>>
       ELSE LET d == Dispatch(s, last_frequency, step_index)
            IN  /\ d.cmds # <<>> => shifts < MaxShifts
                /\ shifts' = IF d.cmds # <<>> THEN shifts + 1 ELSE shifts
                /\ sample' = IF d.cmds # <<>> THEN s ELSE Neutral
                /\ last_frequency' = d.last
                /\ step_index' = d.idx
                /\ toRemote' = Written(toRemote, d.cmds)
                /\ inputPc' = IF d.cmds # <<>> THEN "drain" ELSE "sleep"
                /\ mainPc' = mainPc
    /\ UNCHANGED <<running, joystick, conn, syncPc, fromRemote, rigFreq,
                   ackSet, closeCalls, polls>>

\* 'while self.running', the hat is read and dispatched; a left / right pass
\* runs into set_frequency() up to its 'await drain()', the others to the sleep.
\* The hat is not read when the loop ends or when there is no joystick.
InputCycle(s) ==
    /\ inputPc \in {"top", "sleep"}
    /\ IF ~running
       THEN /\ s = Neutral
            /\ inputPc' = "done"
            /\ UNCHANGED <<last_frequency, step_index, toRemote, sample, shifts>>
       ELSE IF ~joystick
       THEN /\ s = Neutral
            /\ inputPc' = "sleep"
            /\ UNCHANGED <<last_frequency, step_index, toRemote, sample, shifts>>
       ELSE LET d == Dispatch(s, last_frequency, step_index)
            IN  /\ d.cmds # <<>> => shifts < MaxShifts
                /\ shifts' = IF d.cmds # <<>> THEN shifts + 1 ELSE shifts
                /\ sample' = IF d.cmds # <<>> THEN s ELSE Neutral
                /\ last_frequency' = d.last
                /\ step_index' = d.idx
                /\ toRemote' = Written(toRemote, d.cmds)
                /\ inputPc' = IF d.cmds # <<>> THEN "drain" ELSE "sleep"
    /\ UNCHANGED <<running, joystick, conn, mainPc, syncPc, fromRemote,
                   rigFreq, ackSet, closeCalls, polls>>

\* set_frequency(): drain() returns, then the sleep
InputDrain ==
    /\ inputPc = "drain"
    /\ inputPc' = "sleep"
    /\ sample' = Neutral
    /\ UNCHANGED <<running, last_frequency, step_index, joystick, conn,
                   mainPc, syncPc, toRemote, fromRemote, rigFreq, ackSet,
                   closeCalls, polls, shifts>>

\* set_frequency(): drain() raises; the task ends and start() fails with it
InputFail ==
    /\ inputPc = "drain"
    /\ inputPc' = "failed"
    /\ mainPc' = LoopRaised
    /\ sample' = Neutral
    /\ UNCHANGED <<running, last_frequency, step_index, joystick, conn,
                   syncPc, toRemote, fromRemote, rigFreq, ackSet,
                   closeCalls, polls, shifts>>

----------------------------------------------------------------------------
(* The radio *)

\* the radio is followed while the stream is open and a loop is there to use it
Attached == conn = "open" /\ (Live(syncPc) \/ Live(inputPc))

\* the radio takes the next command: 'f' is answered with its frequency (or a
\* report line), 'F <int>' sets it and is acknowledged by a radio that does so
RemoteHandle(style) ==
    /\ Attached
    /\ toRemote # <<>>
    /\ LET cmd == Head(toRemote)
       IN  IF IsSetCmd(cmd)
           THEN /\ style = "plain"
                /\ rigFreq' = PyInt(SubSeq(cmd, 3, Len(cmd)))[1]
                /\ fromRemote' = IF ackSet /\ conn = "open"
                                 THEN fromRemote \o Ack ELSE fromRemote
           ELSE /\ rigFreq' = rigFreq
                /\ fromRemote' = IF conn = "open"
                                 THEN fromRemote \o Reply(style, rigFreq)
                                 ELSE fromRemote
    /\ toRemote' = Tail(toRemote)
    /\ UNCHANGED <<running, last_frequency, step_index, joystick, conn,
                   mainPc, syncPc, inputPc, ackSet, sample, closeCalls, polls,
                   shifts>>

----------------------------------------------------------------------------

Next ==
    \/ Start
    \/ OpenOk
    \/ OpenFail
    \/ Stop
    \/ GatherReturn
    \/ RunCancel
    \/ Interrupt
    \/ SyncCycle
    \/ SyncDrain
    \/ SyncRead
    \/ SyncFail
    \/ \E s \in Samples : InputCycle(s)
    \/ InputDrain
    \/ InputFail
    \/ \E style \in ReplyStyles : RemoteHandle(style)

Spec == Init /\ [][Next]_vars

SpecAck == InitAck /\ [][Next]_vars

\* read(1024) can return: bytes are buffered or the stream is at its end.
\* This is ENABLED <<SyncRead>>_vars.
ReadReady == syncPc = "read" /\ (fromRemote # <<>> \/ conn = "closed")

\* the input loop can begin a pass that does something: leave the while, go to
\* its first sleep, or dispatch.  This is ENABLED <<InputPass>>_vars.
InputReady ==
    \/ inputPc = "top"
    \/ inputPc = "sleep" /\ (~running \/ joystick)

\* SyncRead and a pass of the input loop, with what they leave alone first
SyncReads == inputPc' = inputPc /\ toRemote' = toRemote /\ conn' = conn /\ SyncRead

InputPass ==
    /\ syncPc' = syncPc /\ mainPc' = mainPc /\ conn' = conn
    /\ fromRemote' = fromRemote /\ rigFreq' = rigFreq
    /\ \E s \in Samples : InputCycle(s)

\* the event loop runs every task that is ready: a drain() that can return
\* returns, a sleep ends, a read() with bytes or end of stream returns, and the
\* task runs to its next await.  Weak fairness of each task's steps; for
\* SyncReads and InputPass it is written with ENABLED spelled out.
LoopsRun ==
    /\ WF_vars(SyncCycle \/ SyncDrain)
    /\ WF_vars(InputDrain)
    /\ ([]<>(~ReadReady) \/ []<><<SyncReads>>_vars)
    /\ ([]<>(~InputReady) \/ []<><<InputPass>>_vars)

SpecFair == Init /\ [][Next]_vars /\ LoopsRun

----------------------------------------------------------------------------
(* get_rig_data's decoding applied to the responses a radio can send: the   *)
(* sync loop waits in read(1024) and the response is buffered               *)

\* characters of the lines that come before the value in a response
LineChars == {"O", "K", "7", " ", "\n", InvalidByte}

\* what precedes the last line: nothing, or up to MaxPreceding characters
\* (of one or more lines) closed by a newline
Preceding ==
    {<<>>} \cup {pre \o <<"\n">> :
                    pre \in UNION {[1..n -> LineChars] : n \in 1..MaxPreceding}}

\* the values a response ends with
ResponseFreqs == RigFreqs \cup {-7}

InitDecode ==
    /\ running = TRUE
    /\ last_frequency \in {None, <<145000000>>}
    /\ step_index = 0
    /\ joystick = FALSE
    /\ conn = "open"
    /\ mainPc = "gather"
    /\ syncPc = "read"
    /\ inputPc = "sleep"
    /\ toRemote = <<>>
    /\ rigFreq \in ResponseFreqs
    /\ fromRemote \in {pre \o IntToStr(rigFreq) \o <<"\n">> : pre \in Preceding}
    /\ ackSet = FALSE
    /\ sample = Neutral
    /\ closeCalls = 0
    /\ polls = 1
    /\ shifts = 0

NextDecode == SyncRead

SpecDecode == InitDecode /\ [][NextDecode]_vars

----------------------------------------------------------------------------
(* Properties *)

\* the sync loop's update step: read(1024) returns and the value is compared
SyncUpdates == syncPc = "read" /\ syncPc' = "sleep"

\* the input loop passes through the if / elif chain with hat value s
Dispatches(s) ==
    /\ running /\ joystick
    /\ syncPc' = syncPc /\ mainPc' = mainPc /\ conn' = conn
    /\ fromRemote' = fromRemote /\ rigFreq' = rigFreq
    /\ sample' \in {s, Neutral}
    /\ InputCycle(s)

\* a set-frequency command is written to the stream in this step
WritesSet ==
    /\ Len(toRemote') = Len(toRemote) + 1
    /\ IsSetCmd(toRemote'[Len(toRemote')])

\* a loop inside its body: a request in flight or asleep before the next pass
InBody(pc) == pc \in {"drain", "read", "sleep"}

\* the base a dispatch starts from and the active step size
Base == IF last_frequency = None THEN 1000000 ELSE last_frequency[1]

StepSize == frequency_steps[step_index + 1]

\* the integer a set-frequency command carries, as the radio parses it
Carried(cmd) == PyInt(SubSeq(cmd, 3, Len(cmd)))

(* C1: while the sync loop's read-frequency request is in flight ('f\n'     *)
(* written, response not yet read), the input loop writes no set-frequency  *)
(* command to the connection.                                               *)
C1_NoSetDuringRead ==
    [][(syncPc \in {"drain", "read"}) => ~(WritesSet)]_vars

(* C2: the connection is closed only when neither loop is still inside its  *)
(* loop body or has a request in flight.                                    *)
C2_ClosedOnlyAfterLoops ==
    conn = "closed" => (~InBody(syncPc) /\ ~InBody(inputPc))

(* C3: once the engine has ended, a connection that was opened has been     *)
(* closed, and closed exactly once, whatever the exit path.                 *)
C3_ClosedExactlyOnce ==
    (mainPc \in {"returned", "raised", "stopped"} /\ conn # "unopened")
        => (conn = "closed" /\ closeCalls = 1)

(* C4: when a loop has ended with a transport failure and the engine has    *)
(* ended with it, the running flag is false, neither loop iterates and the  *)
(* connection is closed.                                                    *)
C4_FailureShutsDown ==
    mainPc = "raised"
        => (~running /\ conn = "closed" /\ ~Live(syncPc) /\ ~Live(inputPc))

(* C5: if opening the connection fails, the running flag is not set, no     *)
(* loop has begun, no request was sent, no sample dispatched and            *)
(* last_frequency is absent.                                                *)
C5_OpenFailureRunsNothing ==
    mainPc = "open_failed"
        => /\ ~running
           /\ syncPc = "idle" /\ inputPc = "idle"
           /\ polls = 0 /\ shifts = 0
           /\ toRemote = <<>>
           /\ last_frequency = None /\ step_index = 0

C5_Witness == mainPc = "open_failed" /\ conn = "unopened"

(* C6: in the sync loop's update step, every integer the response decodes   *)
(* to (0 and negatives included) that differs from last_frequency, or meets *)
(* an absent one, is last_frequency after the step.                         *)
C6_EveryIntegerStored ==
    [][SyncUpdates =>
          LET v == Decode(Response)
          IN  (v # None /\ v # last_frequency) => last_frequency' = v]_vars

(* C7: every change of last_frequency is one of the two values written:     *)
(* the value the sync loop decoded in that step, or the base the dispatch   *)
(* read minus / plus the active step; never a blend or any other value.     *)
C7_OneOfTheWrittenValues ==
    [][last_frequency' # last_frequency =>
          \/ SyncUpdates /\ last_frequency' = Decode(Response)
          \/ /\ \E s \in Samples : Dispatches(s)
             /\ last_frequency' \in {<<Base - StepSize>>, <<Base + StepSize>>}]_vars

\* a dispatch wrote 999000 from the default base inside the sync loop's
\* request, and the response read afterwards replaced it
C7_Witness ==
    /\ inputPc = "drain" /\ syncPc = "sleep"
    /\ shifts = 1 /\ polls = 1
    /\ step_index = 0
    /\ last_frequency = <<145000000>>

(* C8: the step index is always in 0..2; one down from 0 gives 2 and one up *)
(* from 2 gives 0.                                                          *)
C8_StepIndexCycles ==
    [][/\ step_index \in 0..2 /\ step_index' \in 0..2
       /\ \A s \in Samples : Dispatches(s) =>
             /\ (s = <<0, -1>> /\ step_index = 0) => step_index' = 2
             /\ (s = <<0, 1>> /\ step_index = 2) => step_index' = 0]_vars

C8_Witness == step_index = 2 /\ inputPc = "sleep" /\ shifts = 0 /\ polls = 0

(* C9: one pass of the input loop takes at most one action, by priority     *)
(* left > right > up > down: at most one set-frequency command, never a     *)
(* command together with a change of the step index.                        *)
C9_OneActionByPriority ==
    [][\A s \in Samples : Dispatches(s) =>
          LET sent == Len(toRemote') - Len(toRemote)
          IN  /\ sent \in {0, 1}
              /\ ~(sent = 1 /\ step_index' # step_index)
              /\ s[1] = -1 =>
                    /\ sent = 1 /\ step_index' = step_index
                    /\ last_frequency' = <<Base - StepSize>>
              /\ s[1] = 1 =>
                    /\ sent = 1 /\ step_index' = step_index
                    /\ last_frequency' = <<Base + StepSize>>
              /\ s[1] = 0 =>
                    /\ sent = 0 /\ last_frequency' = last_frequency
                    /\ step_index' = (step_index + (IF s[2] = -1 THEN 2 ELSE s[2])) % 3
       ]_vars

\* left together with up was sampled: a left was dispatched, the index kept
C9_Witness ==
    /\ sample = <<-1, 1>>
    /\ inputPc = "drain"
    /\ shifts = 1 /\ step_index = 0
    /\ toRemote # <<>> /\ IsSetCmd(toRemote[Len(toRemote)])

(* C10: a left (right) dispatch sets last_frequency to base minus (plus)    *)
(* the step size, base being last_frequency or 1000000, and the command     *)
(* written carries that value: None and step 1000 give 999000 and           *)
(* 'F 999000\n'; 145000000 and step 12500, right, give 145012500.           *)
C10_ShiftAndCommand ==
    [][\A s \in Samples : (Dispatches(s) /\ s[1] # 0) =>
          LET cmd == toRemote'[Len(toRemote')]
          IN  /\ last_frequency' = <<Base + s[1] * StepSize>>
              /\ toRemote' = Append(toRemote, cmd)
              /\ IsSetCmd(cmd) /\ cmd[Len(cmd)] = "\n"
              /\ Carried(cmd) = last_frequency'
              /\ (last_frequency = None /\ step_index = 0 /\ s[1] = -1) =>
                    /\ last_frequency' = <<999000>>
                    /\ cmd = <<"F", " ", "9", "9", "9", "0", "0", "0", "\n">>
              /\ (last_frequency = <<145000000>> /\ step_index = 1 /\ s[1] = 1) =>
                    last_frequency' = <<145012500>>]_vars

\* right at 145000000 with step 12500: the value and the command on the wire
C10_Witness ==
    /\ inputPc = "drain" /\ sample[1] = 1
    /\ step_index = 1
    /\ last_frequency = <<145012500>>
    /\ toRemote # <<>>
    /\ toRemote[Len(toRemote)] =
          <<"F", " ", "1", "4", "5", "0", "1", "2", "5", "0", "0", "\n">>

\* reader.read(1024) handed the buffered bytes to get_rig_data in this step
ReadReturned ==
    /\ syncPc = "read" /\ syncPc' \in {"sleep", "failed"}
    /\ toRemote' = toRemote
    /\ fromRemote # <<>>
    /\ fromRemote' = SubSeq(fromRemote, Len(Response) + 1, Len(fromRemote))

(* C11: when the last line of the response the sync loop received is not an *)
(* integer, the cycle changes neither last_frequency nor the step index and *)
(* the loop does not terminate: it goes on to its sleep and its next cycle. *)
C11_DecodeFailureIsLocal ==
    [][(ReadReturned /\ Decode(Response) = None) =>
          /\ last_frequency' = last_frequency
          /\ step_index' = step_index
          /\ syncPc' = "sleep"]_vars

\* the same for the responses that are text
C11_TextFailureIsLocal ==
    [][(ReadReturned /\ Decodable(Response) /\ Decode(Response) = None) =>
          /\ last_frequency' = last_frequency
          /\ step_index' = step_index
          /\ syncPc' = "sleep"]_vars

(* C12: a response of one or more lines whose last line is an integer (the  *)
(* radio's frequency) decodes to that integer, whatever the lines before it *)
(* hold: 'OK\n145000000\n' gives 145000000.                                 *)
C12_LastLineDecoded ==
    [][ReadReturned =>
          (syncPc' = "sleep" /\ Decode(Response) = <<rigFreq>>)]_vars

\* the same for the responses that are text
C12_TextLastLineDecoded ==
    [][(ReadReturned /\ Decodable(Response)) =>
          (syncPc' = "sleep" /\ Decode(Response) = <<rigFreq>>)]_vars

\* start() has completed: it returned, or it failed or was cancelled
StartFinished ==
    mainPc \in {"open_failed", "returned", "start_failed", "raised", "stopped"}

(* C13: start() has completed (returned or failed) only when both loops     *)
(* have exited: in no state is start() finished while sync_frequencies or   *)
(* handle_controller_input is still running, a transport failure of one     *)
(* loop included.                                                           *)
C13_StartEndsAfterLoops ==
    StartFinished => (~Live(syncPc) /\ ~Live(inputPc))

\* a loop that has left its while, by the flag, an exception or cancellation
Exited(pc) == pc \in {"done", "failed", "cancelled"}

\* stop() has set the flag to false after the loops were started
StopFlipped == ~running /\ syncPc # "idle"

(* C14: once stop() has set the running flag to false, with the event loop  *)
(* running every ready task, both loops eventually exit, and each finishes  *)
(* at most the cycle it was in: no further request is sent, no further      *)
(* sample dispatched, and a loop at its cycle boundary leaves.              *)
C14_StopEndsLoops ==
    /\ StopFlipped ~> (Exited(syncPc) /\ Exited(inputPc))
    /\ [][StopFlipped =>
             /\ polls' = polls /\ shifts' = shifts
             /\ step_index' = step_index
             /\ (syncPc \in {"top", "sleep"} /\ syncPc' # syncPc) => Exited(syncPc')
             /\ (inputPc \in {"top", "sleep"} /\ inputPc' # inputPc) => Exited(inputPc')
         ]_vars

\* stop() came while the sync loop had a request in flight and the input loop
\* was in set_frequency(); both have left their while by the flag
C14_Witness ==
    /\ mainPc = "gather" /\ ~running /\ conn = "closed"
    /\ syncPc = "done" /\ inputPc = "done"
    /\ polls = 1 /\ shifts = 1

(* C15: with no input device, for the whole run the input loop writes       *)
(* nothing to the connection, changes neither last_frequency nor the step   *)
(* index and never fails: every pass goes to its sleep.                     *)
C15_NoDeviceIsNeutral ==
    /\ [](~joystick =>
            /\ inputPc \in {"idle", "top", "sleep", "done", "cancelled"}
            /\ shifts = 0 /\ step_index = 0 /\ sample = Neutral
            /\ \A i \in 1..Len(toRemote) : toRemote[i] = ReadCmd)
    /\ [][~joystick =>
             /\ joystick' = joystick
             /\ last_frequency' # last_frequency => SyncUpdates
             /\ toRemote' # toRemote => syncPc' # syncPc \/ mainPc' # mainPc
                                           \/ Len(toRemote') < Len(toRemote)
         ]_vars

\* a run without a device: the input loop has passed and sleeps, the sync
\* loop has polled twice and stored the radio's frequency
C15_Witness ==
    /\ ~joystick /\ inputPc = "sleep" /\ syncPc = "sleep"
    /\ running /\ polls = 2
    /\ last_frequency = <<145000000>>

\* the branch of the chain that the hat value s takes
Branch(s) ==
    IF s[1] = -1 THEN "left" ELSE IF s[1] = 1 THEN "right"
    ELSE IF s[2] = 1 THEN "up" ELSE IF s[2] = -1 THEN "down" ELSE "neutral"

(* C16: an up or down dispatch changes only the step index: last_frequency  *)
(* is unchanged and nothing is written to the connection; a left or right   *)
(* dispatch leaves the step index unchanged.                                *)
C16_DispatchFrame ==
    [][\A s \in Samples : Dispatches(s) =>
          /\ Branch(s) \in {"up", "down"} =>
                /\ last_frequency' = last_frequency
                /\ toRemote' = toRemote
                /\ step_index' # step_index
                /\ running' = running /\ inputPc' = "sleep"
          /\ Branch(s) \in {"left", "right"} => step_index' = step_index]_vars

\* right was dispatched at step index 2, reached by one down from 0: the index
\* is still 2 while the command is on its way
C16_Witness ==
    /\ inputPc = "drain" /\ sample = <<1, 0>>
    /\ step_index = 2 /\ shifts = 1
    /\ last_frequency = <<2000000>>

\* the response waiting to be read is older than the local update: the set
\* command that carries last_frequency is still on its way to the radio, so it
\* was written while the request of this response was in flight
StaleResponse ==
    /\ fromRemote # <<>>
    /\ \E i \in 1..Len(toRemote) :
          IsSetCmd(toRemote[i]) /\ Carried(toRemote[i]) = last_frequency

(* C17: after a left / right dispatch has set last_frequency to v and sent  *)
(* 'F v', the response to a read-frequency request that was in flight       *)
(* when the dispatch happened does not change last_frequency.               *)
C17_NoStaleRevert ==
    [][(SyncUpdates /\ StaleResponse) => last_frequency' = last_frequency]_vars

\* the bytes are one reply of the radio to 'f\n', whole and alone
OneReply(bytes) ==
    \/ bytes \in {Reply("error", 0), Reply("garbled", 0)}
    \/ /\ Decodable(bytes) /\ Decode(bytes) # None
       /\ bytes \in {Reply("plain", Decode(bytes)[1]),
                      Reply("banner", Decode(bytes)[1])}

\* the request of this cycle has reached the radio and been answered
RequestAnswered == \A i \in 1..Len(toRemote) : toRemote[i] # ReadCmd

(* C18: every response the sync loop decodes in a cycle is the radio's      *)
(* reply to the read-frequency request sent in that cycle: the request has  *)
(* been answered and the bytes read are that one reply, also with set       *)
(* commands interleaved and with a radio that acknowledges each of them.    *)
C18_ResponsePairsWithRequest ==
    [][ReadReturned => (RequestAnswered /\ OneReply(Response))]_vars

\* a loop hands a request to writer.write() in this step
SendsRequest == polls' # polls \/ shifts' # shifts

(* C19: with tasks switching only at their awaits, no request is written    *)
(* after stop() has closed the connection: in no step does a loop send      *)
(* 'f\n' or 'F <int>\n' while the connection is closed.                     *)
C19_NoWriteAfterClose ==
    [][SendsRequest => (conn = "open" /\ conn' = "open" /\ running)]_vars

\* stop() closed the connection under two requests; both loops came out of
\* their awaits and left without sending again
C19_Witness ==
    /\ conn = "closed" /\ closeCalls = 1 /\ mainPc = "gather"
    /\ syncPc = "done" /\ inputPc = "sleep"
    /\ polls = 1 /\ shifts = 1 /\ step_index = 1

(* C20: last_frequency is absent from construction until the first          *)
(* successful sync read or the first left / right dispatch (nothing else     *)
(* makes it present), and once present it is never absent again: a decode    *)
(* failure does not clear it.                                                *)
C20_PresentStaysPresent ==
    /\ [](mainPc \in {"new", "opening", "open_failed"} => last_frequency = None)
    /\ [][(last_frequency # None => last_frequency' # None)
           /\ ((last_frequency = None /\ last_frequency' # None) =>
                 ((SyncUpdates /\ Decode(Response) = last_frequency')
                  \/ (\E s \in Samples : Dispatches(s) /\ s[1] # 0)))]_vars

\* the first read stored 145000000 and the second response, a report line that
\* does not decode, left it in place
C20_Witness ==
    /\ last_frequency = <<145000000>> /\ polls = 2 /\ shifts = 0
    /\ syncPc = "read"
    /\ fromRemote = Reply("error", rigFreq)

====
